---- MODULE Spec2Model ----
(***************************************************************************)
(* Hello API (src/api/src/app.py): a Flask application with six GET        *)
(* routes, two error handlers and the development server started by        *)
(* app.run.  The model keeps the process configuration read at import,     *)
(* the requests in flight (one handling unit per request, as app.run       *)
(* serves them) and a clock in seconds, so that the blocking time.sleep of *)
(* /simulate/slow and the latency of the other requests can be observed.   *)
(***************************************************************************)
EXTENDS Integers, Sequences, FiniteSets, TLC

VARIABLES config, debug, startup, th, now

vars == <<config, debug, startup, th, now>>

(***************************************************************************)
(* Bounds of the model.                                                    *)
(***************************************************************************)
\* number of requests the clients issue in one run
MaxRequests == 2

(***************************************************************************)
(* Text.  A Python str is a sequence of strings: one-character strings     *)
(* where the code parses or formats it, larger pieces where it only        *)
(* assembles it (an f-string); \o is concatenation.                        *)
(***************************************************************************)
DigitChars == <<"0", "1", "2", "3", "4", "5", "6", "7", "8", "9">>

IsDigit(c) == \E k \in 1..10 : DigitChars[k] = c

DigitVal(c) == (CHOOSE k \in 1..10 : DigitChars[k] = c) - 1

RECURSIVE DigitsValue(_)
\* value of a non-empty run of decimal digits, most significant first
DigitsValue(s) ==
    IF Len(s) = 0 THEN 0
    ELSE 10 * DigitsValue(SubSeq(s, 1, Len(s) - 1)) + DigitVal(s[Len(s)])

AllDigits(s) == Len(s) > 0 /\ \A k \in 1..Len(s) : IsDigit(s[k])

\* int(text): an optional sign, then decimal digits; anything else raises
\* ValueError (ok = FALSE)
ParseInt(s) ==
    IF Len(s) > 0 /\ s[1] \in {"-", "+"}
    THEN LET rest == SubSeq(s, 2, Len(s))
         IN  IF AllDigits(rest)
             THEN [ok |-> TRUE,
                   val |-> IF s[1] = "-" THEN 0 - DigitsValue(rest)
                           ELSE DigitsValue(rest)]
             ELSE [ok |-> FALSE, val |-> 0]
    ELSE IF AllDigits(s) THEN [ok |-> TRUE, val |-> DigitsValue(s)]
         ELSE [ok |-> FALSE, val |-> 0]

RECURSIVE NatToStr(_)
NatToStr(n) ==
    IF n < 10 THEN <<DigitChars[n + 1]>>
    ELSE NatToStr(n \div 10) \o <<DigitChars[(n % 10) + 1]>>

\* str(n) as an f-string field formats it
IntToStr(n) == IF n < 0 THEN <<"-">> \o NatToStr(0 - n) ELSE NatToStr(n)

LowerChar(c) ==
    CASE c = "T" -> "t"
      [] c = "R" -> "r"
      [] c = "U" -> "u"
      [] c = "E" -> "e"
      [] OTHER -> c

\* str.lower()
Lower(s) == [k \in 1..Len(s) |-> LowerChar(s[k])]

(***************************************************************************)
(* Mappings with optional keys (os.environ, request.args, headers) are     *)
(* sets of <<key, value>> pairs with at most one pair per key.             *)
(***************************************************************************)
Has(m, k) == \E p \in m : p[1] = k

Lookup(m, k) == (CHOOSE p \in m : p[1] = k)[2]

\* os.environ.get(k, default) and headers.get(k) (default None)
environ_get(m, k, default) == IF Has(m, k) THEN Lookup(m, k) ELSE default

\* a conversion that yields 0 for text it cannot parse
args_get_atoi(args, k, default) ==
    IF Has(args, k) THEN ParseInt(Lookup(args, k)).val ELSE default

\* request.args.get(k, default, type=int): the default when the key is
\* absent or int() raises ValueError
args_get(args, k, default) ==
    IF ~Has(args, k) THEN default
    ELSE LET r == ParseInt(Lookup(args, k))
         IN  IF r.ok THEN r.val ELSE default

(***************************************************************************)
(* The process environment and the configuration read from it.            *)
(***************************************************************************)
\* socket.gethostname()
Hostname == <<"host-1">>

Unknown == <<"Unknown">>

Environments ==
    { {},
      { <<"CLOUD_PROVIDER", <<"AWS">>>>, <<"REGION", <<"us-east-1">>>>,
        <<"ENVIRONMENT", <<"prod">>>>, <<"POD_NAME", <<"pod-1">>>>,
        <<"POD_IP", <<"10.0.0.1">>>>, <<"DEBUG", <<"T", "r", "u", "e">>>> },
      { <<"CLOUD_PROVIDER", <<"Azure">>>>, <<"REGION", <<"westeurope">>>>,
        <<"DEBUG", <<"1">>>> } }

LoadConfig(env) ==
    [cloud_provider |-> environ_get(env, "CLOUD_PROVIDER", Unknown),
     region         |-> environ_get(env, "REGION", Unknown),
     environment    |-> environ_get(env, "ENVIRONMENT", Unknown),
     pod_name       |-> environ_get(env, "POD_NAME", Hostname),
     pod_ip         |-> environ_get(env, "POD_IP", Unknown)]

LoadDebug(env) ==
    Lower(environ_get(env, "DEBUG", <<"f", "a", "l", "s", "e">>))
        = <<"t", "r", "u", "e">>

(***************************************************************************)
(* Requests.  A request is its method, its path, its query string          *)
(* (request.args) and its headers.                                         *)
(***************************************************************************)
Req(m, p, a, h) == [method |-> m, path |-> p, args |-> a, headers |-> h]

Methods == {"GET", "POST"}

Paths ==
    {"/hello", "/health", "/ready", "/info", "/simulate/slow",
     "/simulate/error", "/nonexistent"}

\* values of ?delay= a client sends
DelayArgs ==
    { <<"4", "0">>, <<"2">>, <<"0">>, <<"-", "1">>, <<"a", "b", "c">>,
      <<>> }

\* values of ?code= a client sends
CodeArgs ==
    { <<"4", "0", "4">>, <<"9", "9", "9">>, <<"0", "7">>, <<"-", "5">>,
      <<"x">> }

Requests ==
    { Req(m, p, {}, {}) : m \in Methods, p \in Paths }
      \cup { Req("GET", "/hello", {},
                 {<<"X-APIM-Gateway", <<"apim-aws">>>>,
                  <<"X-Forwarded-For", <<"203.0.113.9">>>>}) }
      \cup { Req("GET", "/simulate/slow", {<<"delay", d>>}, {}) :
                 d \in DelayArgs }
      \cup { Req("GET", "/simulate/error", {<<"code", c>>}, {}) :
                 c \in CodeArgs }

\* request.remote_addr
RemoteAddr == <<"198.51.100.7">>

\* JSON null (Python None)
Null == <<"null">>

(***************************************************************************)
(* Responses: a status, a content type and a body.  jsonify builds a JSON  *)
(* object (a record) with content type application/json.                   *)
(***************************************************************************)
jsonify(body, status) ==
    [status |-> status, ctype |-> "application/json", body |-> body]

\* a page the framework renders itself
html(text, status) ==
    [status |-> status, ctype |-> "text/html", body |-> [html |-> text]]

NoResp == [status |-> 0, ctype |-> "", body |-> [none |-> TRUE]]

get_request_info(req) ==
    [client_ip     |-> RemoteAddr,
     forwarded_for |-> environ_get(req.headers, "X-Forwarded-For", Null),
     apim_gateway  |-> environ_get(req.headers, "X-APIM-Gateway", Null),
     user_agent    |-> environ_get(req.headers, "User-Agent", Null)]

hello_message(cfg) == <<"Hello from ">> \o cfg.cloud_provider \o <<"!">>

hello_response(cfg, req, t) ==
    LET request_info == get_request_info(req)
    IN  jsonify([message   |-> hello_message(cfg),
                 source    |-> cfg.cloud_provider,
                 timestamp |-> t,
                 instance  |-> [cloud       |-> cfg.cloud_provider,
                                region      |-> cfg.region,
                                environment |-> cfg.environment,
                                pod_name    |-> cfg.pod_name,
                                pod_ip      |-> cfg.pod_ip],
                 request   |-> [client_ip     |-> request_info.client_ip,
                                forwarded_for |-> request_info.forwarded_for,
                                gateway       |-> request_info.apim_gateway]],
                200)

health_response(cfg, t) ==
    jsonify([status |-> <<"healthy">>, cloud |-> cfg.cloud_provider,
             timestamp |-> t], 200)

ready_response(cfg, t) ==
    jsonify([status |-> <<"ready">>, cloud |-> cfg.cloud_provider,
             timestamp |-> t], 200)

info_response(cfg, t) ==
    jsonify([service        |-> <<"hello-api">>,
             version        |-> <<"1.0.0">>,
             cloud_provider |-> cfg.cloud_provider,
             region         |-> cfg.region,
             environment    |-> cfg.environment,
             instance       |-> [pod_name |-> cfg.pod_name,
                                 pod_ip   |-> cfg.pod_ip,
                                 hostname |-> Hostname],
             timestamp      |-> t], 200)

(***************************************************************************)
(* /simulate/slow                                                          *)
(***************************************************************************)
DefaultDelay == 5

MaxDelay == 30

Min(a, b) == IF a < b THEN a ELSE b

\* delay = request.args.get('delay', 5, type=int); delay = min(delay, 30)
slow_delay(req) == Min(args_get(req.args, "delay", DefaultDelay), MaxDelay)

\* time.sleep(secs) raises ValueError for a negative length
sleep_raises(secs) == secs < 0

slow_response(cfg, delay, t) ==
    jsonify([message       |-> <<"Slow response after ">> \o IntToStr(delay)
                                   \o <<" seconds">>,
             delay_seconds |-> delay,
             cloud         |-> cfg.cloud_provider,
             timestamp     |-> t], 200)

(***************************************************************************)
(* /simulate/error                                                         *)
(***************************************************************************)
DefaultCode == 500

KnownCodes == {400, 401, 403, 404, 429, 500, 502, 503, 504}

error_messages(code) ==
    CASE code = 400 -> <<"Bad Request - Simulated client error">>
      [] code = 401 -> <<"Unauthorized - Simulated authentication failure">>
      [] code = 403 -> <<"Forbidden - Simulated authorization failure">>
      [] code = 404 -> <<"Not Found - Simulated missing resource">>
      [] code = 429 -> <<"Too Many Requests - Simulated rate limit">>
      [] code = 500 -> <<"Internal Server Error - Simulated server error">>
      [] code = 502 -> <<"Bad Gateway - Simulated upstream error">>
      [] code = 503 -> <<"Service Unavailable - Simulated service failure">>
      [] code = 504 -> <<"Gateway Timeout - Simulated timeout">>

\* a lookup that never finds its key
error_message_no_lookup(code) ==
    <<"Simulated error with code ">> \o IntToStr(code)

\* error_messages.get(code, f'Simulated error with code {code}')
error_message(code) ==
    IF code \in KnownCodes THEN error_messages(code)
    ELSE <<"Simulated error with code ">> \o IntToStr(code)

\* a status outside 100..599 replaced by 500
response_status_checked(code) == IF code \in 100..599 THEN code ELSE 500

\* the status the response carries for `return body, code`
response_status(code) == code

error_response(cfg, req, t) ==
    LET code == args_get(req.args, "code", DefaultCode)
    IN  jsonify([error     |-> error_message(code),
                 code      |-> code,
                 cloud     |-> cfg.cloud_provider,
                 timestamp |-> t], response_status(code))

(***************************************************************************)
(* Error handlers and what the framework does with the errors that have    *)
(* no handler.                                                             *)
(***************************************************************************)
not_found_response(cfg, t) ==
    jsonify([error |-> <<"Endpoint not found">>,
             cloud |-> cfg.cloud_provider, timestamp |-> t], 404)

internal_error_response(cfg, t) ==
    jsonify([error |-> <<"Internal server error">>,
             cloud |-> cfg.cloud_provider, timestamp |-> t], 500)

\* no handler is registered for 405: the framework's own page is sent
method_not_allowed_response == html(<<"405 Method Not Allowed">>, 405)

\* the debugger's page for an exception that propagates out of the app
traceback_response(exc) ==
    html(<<"Traceback (most recent call last)">> \o exc, 500)

\* an exception raised in a view: with debug on it propagates to the
\* server's debugger, otherwise the errorhandler(500) answers
handle_exception(dbg, cfg, exc, t) ==
    IF dbg THEN traceback_response(exc) ELSE internal_error_response(cfg, t)

(***************************************************************************)
(* Routing: the rules the @app.route decorators declare.                   *)
(***************************************************************************)
Routes ==
    {"/hello", "/health", "/ready", "/info", "/simulate/slow",
     "/simulate/error"}

RouteMethods == {"GET"}

\* a rule that was never registered
url_match_unregistered(path) == path \in Routes \ {"/simulate/error"}

url_match(path) == path \in Routes

\* "NotFound", "MethodNotAllowed", or the path of the matching rule
Route(req) ==
    IF ~url_match(req.path) THEN "NotFound"
    ELSE IF req.method \notin RouteMethods THEN "MethodNotAllowed"
    ELSE req.path

(***************************************************************************)
(* The server.  app.run serves each accepted request in a handling unit of *)
(* its own (the development server is threaded unless told otherwise).     *)
(* th is the sequence of requests accepted so far, each with the state of  *)
(* its handling unit:                                                      *)
(*   "pending"   accepted, its view not yet entered                        *)
(*   "sleeping"  inside time.sleep, until clock value wake                 *)
(*   "done"      response sent at clock value sent                         *)
(***************************************************************************)
\* one request at a time
SingleThreaded == FALSE

Threaded == TRUE

Ids == 1..Len(th)

Busy == \E j \in Ids : th[j].state = "sleeping"

\* request i can be given a handling unit now
CanDispatch(i) == th[i].state = "pending" /\ (Threaded \/ ~Busy)

Dispatched(i, endpoint) == CanDispatch(i) /\ Route(th[i].req) = endpoint

Respond(i, resp) ==
    th' = [th EXCEPT ![i].state = "done",
                     ![i].started = IF th[i].state = "pending" THEN now
                                    ELSE th[i].started,
                     ![i].sent = now,
                     ![i].resp = resp]

Init ==
    /\ \E env \in Environments :
          /\ config = LoadConfig(env)
          /\ debug = LoadDebug(env)
    /\ startup = config
    /\ th = <<>>
    /\ now = 0

\* a client's request is accepted by the listening socket
Arrive(r) ==
    /\ Len(th) < MaxRequests
    /\ th' = Append(th, [req |-> r, state |-> "pending", arrived |-> now,
                         started |-> 0, delay |-> 0, wake |-> 0, sent |-> 0,
                         resp |-> NoResp])
    /\ UNCHANGED <<config, debug, startup, now>>

\* a view that rebinds the module-level configuration
hello_rebinds_config(i) ==
    /\ Dispatched(i, "/hello")
    /\ Respond(i, hello_response(config, th[i].req, now))
    /\ config' = [config EXCEPT
                     !.cloud_provider =
                         environ_get(th[i].req.headers, "X-APIM-Gateway",
                                     Unknown)]
    /\ UNCHANGED <<debug, startup, now>>

hello(i) ==
    /\ Dispatched(i, "/hello")
    /\ Respond(i, hello_response(config, th[i].req, now))
    /\ UNCHANGED <<config, debug, startup, now>>

health(i) ==
    /\ Dispatched(i, "/health")
    /\ Respond(i, health_response(config, now))
    /\ UNCHANGED <<config, debug, startup, now>>

ready(i) ==
    /\ Dispatched(i, "/ready")
    /\ Respond(i, ready_response(config, now))
    /\ UNCHANGED <<config, debug, startup, now>>

info(i) ==
    /\ Dispatched(i, "/info")
    /\ Respond(i, info_response(config, now))
    /\ UNCHANGED <<config, debug, startup, now>>

\* simulate_slow up to and including the call of time.sleep
simulate_slow(i) ==
    /\ Dispatched(i, "/simulate/slow")
    /\ LET delay == slow_delay(th[i].req)
       IN  IF sleep_raises(delay)
           THEN Respond(i, handle_exception(debug, config,
                               <<"ValueError: sleep length must be non-negative">>,
                               now))
           ELSE th' = [th EXCEPT ![i].state = "sleeping",
                                 ![i].started = now,
                                 ![i].delay = delay,
                                 ![i].wake = now + delay]
    /\ UNCHANGED <<config, debug, startup, now>>

\* time.sleep returns and simulate_slow builds its response
simulate_slow_return(i) ==
    /\ th[i].state = "sleeping"
    /\ th[i].wake <= now
    /\ Respond(i, slow_response(config, th[i].delay, now))
    /\ UNCHANGED <<config, debug, startup, now>>

simulate_error(i) ==
    /\ Dispatched(i, "/simulate/error")
    /\ Respond(i, error_response(config, th[i].req, now))
    /\ UNCHANGED <<config, debug, startup, now>>

\* no rule matches the path: errorhandler(404)
not_found(i) ==
    /\ Dispatched(i, "NotFound")
    /\ Respond(i, not_found_response(config, now))
    /\ UNCHANGED <<config, debug, startup, now>>

\* a rule matches the path but not the method
method_not_allowed(i) ==
    /\ Dispatched(i, "MethodNotAllowed")
    /\ Respond(i, method_not_allowed_response)
    /\ UNCHANGED <<config, debug, startup, now>>

\* Time passes only when nothing can run: views other than the sleep take
\* no time.  The clock moves to the next wake-up or, while a request can
\* still arrive, to an instant half-way to it.
Runnable ==
    \E i \in Ids : \/ CanDispatch(i)
                   \/ th[i].state = "sleeping" /\ th[i].wake <= now

NextWake ==
    CHOOSE w \in {th[j].wake : j \in {k \in Ids : th[k].state = "sleeping"}} :
        \A j \in Ids : th[j].state = "sleeping" => w <= th[j].wake

Tick ==
    /\ Busy
    /\ ~Runnable
    /\ now' \in {NextWake}
                 \cup (IF Len(th) < MaxRequests
                       THEN {NextWake - (NextWake - now) \div 2}
                       ELSE {})
    /\ UNCHANGED <<config, debug, startup, th>>

Next ==
    \/ \E r \in Requests : Arrive(r)
    \/ \E i \in Ids : hello(i)
    \/ \E i \in Ids : health(i)
    \/ \E i \in Ids : ready(i)
    \/ \E i \in Ids : info(i)
    \/ \E i \in Ids : simulate_slow(i)
    \/ \E i \in Ids : simulate_slow_return(i)
    \/ \E i \in Ids : simulate_error(i)
    \/ \E i \in Ids : not_found(i)
    \/ \E i \in Ids : method_not_allowed(i)
    \/ Tick

Spec == Init /\ [][Next]_vars

(***************************************************************************)
(* Properties.                                                             *)
(***************************************************************************)
Done(i) == th[i].state = "done"

IsGet(i, path) == th[i].req.method = "GET" /\ th[i].req.path = path

IsJson(resp) == resp.ctype = "application/json"

Field(resp, f) == IsJson(resp) /\ f \in DOMAIN resp.body

\* the routes the service declares
DeclaredRoutes ==
    {"/hello", "/health", "/ready", "/info", "/simulate/slow",
     "/simulate/error"}

\* C1: a /health request in flight together with a sleeping /simulate/slow
\* request is answered 200 "healthy" at the instant it arrived; no request
\* waits for a handling unit while another one sleeps: a pending request has
\* waited no time, and every view was entered at the instant of arrival.
C1_HealthNotBlockedBySlow ==
    \A i \in Ids :
        /\ th[i].state = "pending" => th[i].arrived = now
        /\ th[i].state # "pending" => th[i].started = th[i].arrived
        /\ (Done(i) /\ IsGet(i, "/health")) =>
              /\ th[i].sent = th[i].arrived
              /\ th[i].resp.status = 200
              /\ Field(th[i].resp, "status")
              /\ th[i].resp.body.status = <<"healthy">>

\* a /health request that arrived strictly inside the sleep of a slow request
\* has its response while the slow request still sleeps
C1_Witness ==
    \E i, j \in Ids :
        /\ IsGet(j, "/simulate/slow") /\ th[j].state = "sleeping"
        /\ IsGet(i, "/health") /\ Done(i)
        /\ th[j].started < th[i].arrived
        /\ th[i].sent < th[j].wake
        /\ th[i].resp.status = 200

\* the delay the interface documents for a /simulate/slow request: 5 when
\* delay is absent or is no integer, min(value, 30) otherwise
DocumentedDelay(req) ==
    IF ~Has(req.args, "delay") \/ ~ParseInt(Lookup(req.args, "delay")).ok
    THEN 5
    ELSE IF ParseInt(Lookup(req.args, "delay")).val > 30 THEN 30
         ELSE ParseInt(Lookup(req.args, "delay")).val

\* C2: every answered /simulate/slow request was blocked for exactly its
\* documented delay and then answered with delay_seconds equal to that delay.
C2_SlowBlocksForEffectiveDelay ==
    \A i \in Ids :
        (Done(i) /\ IsGet(i, "/simulate/slow")) =>
            /\ th[i].sent - th[i].started = DocumentedDelay(th[i].req)
            /\ Field(th[i].resp, "delay_seconds")
            /\ th[i].resp.body.delay_seconds = DocumentedDelay(th[i].req)

\* C3: every answered GET /simulate/slow request whose delay is an integer
\* (positive, zero or negative) has status 200.
C3_SlowIntegerDelayIs200 ==
    \A i \in Ids :
        (/\ Done(i) /\ IsGet(i, "/simulate/slow")
         /\ Has(th[i].req.args, "delay")
         /\ ParseInt(Lookup(th[i].req.args, "delay")).ok)
        => th[i].resp.status = 200

Unparseable(req, k) == Has(req.args, k) /\ ~ParseInt(Lookup(req.args, k)).ok

\* C6: a delay that is present but no integer is handled as an absent one
\* (200 after 5 seconds, delay_seconds 5), and a code that is present but no
\* integer as an absent one (the simulated 500 response).
C6_UnparseableUsesDefault ==
    \A i \in Ids :
        /\ (Done(i) /\ IsGet(i, "/simulate/slow")
                 /\ Unparseable(th[i].req, "delay")) =>
              /\ th[i].resp.status = 200
              /\ Field(th[i].resp, "delay_seconds")
              /\ th[i].resp.body.delay_seconds = 5
              /\ th[i].sent - th[i].started = 5
        /\ (Done(i) /\ IsGet(i, "/simulate/error")
                 /\ Unparseable(th[i].req, "code")) =>
              /\ th[i].resp.status = 500
              /\ Field(th[i].resp, "code") /\ Field(th[i].resp, "error")
              /\ th[i].resp.body.code = 500
              /\ th[i].resp.body.error
                     = <<"Internal Server Error - Simulated server error">>

\* both handlers have answered a request with an unparseable parameter
C6_Witness ==
    \E i, j \in Ids :
        /\ Done(i) /\ IsGet(i, "/simulate/slow")
        /\ th[i].req.args = {<<"delay", <<"a", "b", "c">>>>}
        /\ th[i].resp.status = 200
        /\ Done(j) /\ IsGet(j, "/simulate/error")
        /\ th[j].req.args = {<<"code", <<"x">>>>}
        /\ th[j].resp.status = 500

\* C7: every response with an error status is a JSON object with the fields
\* error, cloud and timestamp.
C7_ErrorsAreFlatJson ==
    \A i \in Ids :
        (Done(i) /\ th[i].resp.status >= 400) =>
            /\ IsJson(th[i].resp)
            /\ {"error", "cloud", "timestamp"} \subseteq DOMAIN th[i].resp.body

\* C8: a request whose path is none of the declared routes gets 404 with
\* error "Endpoint not found", cloud and timestamp; a request to a declared
\* route never gets that error.
C8_NotFoundOnlyForUndeclared ==
    \A i \in Ids :
        Done(i) =>
            /\ th[i].req.path \notin DeclaredRoutes =>
                  /\ th[i].resp.status = 404
                  /\ IsJson(th[i].resp)
                  /\ th[i].resp.body
                         = [error     |-> <<"Endpoint not found">>,
                            cloud     |-> startup.cloud_provider,
                            timestamp |-> th[i].sent]
            /\ th[i].req.path \in DeclaredRoutes =>
                  ~(/\ Field(th[i].resp, "error")
                    /\ th[i].resp.body.error = <<"Endpoint not found">>)

\* an undeclared path answered by the not-found handler, and a simulated 404
\* of a declared route answered with the other body
C8_Witness ==
    \E i, j \in Ids :
        /\ Done(i) /\ th[i].req.path = "/nonexistent"
        /\ th[i].resp.status = 404
        /\ th[i].resp.body.error = <<"Endpoint not found">>
        /\ Done(j) /\ IsGet(j, "/simulate/error")
        /\ th[j].resp.status = 404
        /\ th[j].resp.body.error # <<"Endpoint not found">>

\* the view of request i raised an exception
ViewRaised(i) ==
    /\ IsGet(i, "/simulate/slow")
    /\ Has(th[i].req.args, "delay")
    /\ ParseInt(Lookup(th[i].req.args, "delay")).ok
    /\ ParseInt(Lookup(th[i].req.args, "delay")).val < 0

\* C9: a request whose handling raised is answered 500 with exactly the
\* generic body {error: "Internal server error", cloud, timestamp}, in every
\* configuration the process starts in.
C9_FaultIsGeneric500 ==
    \A i \in Ids :
        (Done(i) /\ ViewRaised(i)) =>
            /\ th[i].resp.status = 500
            /\ IsJson(th[i].resp)
            /\ th[i].resp.body
                   = [error     |-> <<"Internal server error">>,
                      cloud     |-> startup.cloud_provider,
                      timestamp |-> th[i].sent]

\* C10: the configuration is the one read at startup; every response that
\* reports a cloud reports the startup cloud_provider, and the message of
\* /hello is "Hello from " + cloud_provider + "!".
C10_ConfigImmutable ==
    /\ config = startup
    /\ \A i \in Ids :
          Done(i) =>
              /\ Field(th[i].resp, "cloud")
                    => th[i].resp.body.cloud = startup.cloud_provider
              /\ IsGet(i, "/hello") =>
                    /\ Field(th[i].resp, "message")
                    /\ th[i].resp.body.message
                           = <<"Hello from ">> \o startup.cloud_provider
                                 \o <<"!">>
                    /\ th[i].resp.body.source = startup.cloud_provider
                    /\ th[i].resp.body.instance.cloud = startup.cloud_provider

\* after a /hello carrying a gateway header was served, a later response
\* still reports the configured (non-default) cloud
C10_Witness ==
    \E i, j \in Ids :
        /\ i < j
        /\ Done(i) /\ IsGet(i, "/hello")
        /\ Has(th[i].req.headers, "X-APIM-Gateway")
        /\ Done(j) /\ Field(th[j].resp, "cloud")
        /\ startup.cloud_provider = <<"AWS">>
        /\ th[j].resp.body.cloud = <<"AWS">>
        /\ th[i].resp.body.message = <<"Hello from ", "AWS", "!">>

====
